---- MODULE Spec2Model ----
(***************************************************************************)
(* Zone-control translation layer of the DZK-BACNET accessory              *)
(* (src/src/accessories/dzk-bacnet.ts): the object directory, the zone     *)
(* controller DzkZone, the characteristic handlers of DzkZoneAccessory and *)
(* the construction loop of the platform (src/unnamed/part_000).           *)
(*                                                                         *)
(* Temperatures and humidity are carried in tenths of a unit, so that the  *)
(* defaults of internalStates (20.5, 42.2, ...) are integers; the value    *)
(* sets below are chosen so that f2c and c2f divide exactly.               *)
(***************************************************************************)
EXTENDS Integers, Sequences, FiniteSets, TLC

(* ---------------------------------------------------------------- bounds *)
\* Handler invocations the accessory host makes in one behaviour.
MaxCalls == 2

(* ------------------------------------------------- characteristic values *)
CELSIUS == 0
FAHRENHEIT == 1

CurrentHeatingCoolingState_OFF == 0
CurrentHeatingCoolingState_HEAT == 1
CurrentHeatingCoolingState_COOL == 2

TargetHeatingCoolingState_OFF == 0
TargetHeatingCoolingState_HEAT == 1
TargetHeatingCoolingState_COOL == 2
TargetHeatingCoolingState_AUTO == 3

CurrentFanState_INACTIVE == 0
CurrentFanState_IDLE == 1
CurrentFanState_BLOWING_AIR == 2

DzkOperationMode_AUTO == 1
DzkOperationMode_COOL == 2
DzkOperationMode_HEAT == 3
DzkOperationMode_DRY == 4

\* bacnet.enum.ApplicationTags.BACNET_APPLICATION_TAG_UNSIGNED_INT
BACNET_APPLICATION_TAG_UNSIGNED_INT == "UNSIGNED_INT"

(* ------------------------------------------------------ unit conversion *)
\* ((ff - 32) * 5) / 9, in tenths of a degree
f2c(ff) == ((ff - 320) * 5) \div 9

\* (cc * 9) / 5 + 32, in tenths of a degree
c2f(cc) == (cc * 9) \div 5 + 320

(* ------------------------------------------------------ object directory *)
dzk_objects ==
  "global" :> (
      "iu-status-onoff" :> [n |-> "BI:0", rw |-> "R"] @@
      "dzk-system-input-alarm" :> [n |-> "BI:1", rw |-> "R"] @@
      "dzk-global-fan" :> [n |-> "BV:0", rw |-> "R"] @@
      "dzk-aux-heat1" :> [n |-> "BV:1", rw |-> "R"] @@
      "dzk-aux-heat2" :> [n |-> "BV:2", rw |-> "R"] @@
      "dzk-bacnet-communication-error" :> [n |-> "BV:27", rw |-> "R"] @@
      "iu-speed" :> [n |-> "MI:0", rw |-> "R"] @@
      "iu-errors" :> [n |-> "MI:1", rw |-> "R"] @@
      "dzk-error" :> [n |-> "MI:2", rw |-> "R"] @@
      "dzk-operation-mode" :> [n |-> "MO:0", rw |-> "R/W"] @@
      "dzk-user-mode" :> [n |-> "MO:1", rw |-> "R/W"] @@
      "iu-set-point" :> [n |-> "AV:0", rw |-> " R/W"] @@
      "dzk-address" :> [n |-> "AV:13", rw |-> "R"] @@
      "dzk-group-address" :> [n |-> "AV:14", rw |-> "R"]) @@
  "zone1" :> (
      "onoff" :> [n |-> "BV:3", rw |-> "R/W"] @@
      "local-ventilation" :> [n |-> "BV:4", rw |-> "R/W"] @@
      "vacation-override" :> [n |-> "BV:5", rw |-> "R"] @@
      "unoccupied-override" :> [n |-> "BV:6", rw |-> "R"] @@
      "room-temperature" :> [n |-> "AI:0", rw |-> "R"] @@
      "heat-set-point" :> [n |-> "AV:1", rw |-> "R/W"] @@
      "cold-set-point" :> [n |-> "AV:2", rw |-> "R/W"] @@
      "humidity" :> [n |-> "AV:33", rw |-> "R"] @@
      "cooling-demand" :> [n |-> "AV:15", rw |-> "R"] @@
      "heating-demand" :> [n |-> "AV:16", rw |-> "R"] @@
      "aux-heating-demand-(%)" :> [n |-> "AV:17", rw |-> "R"] @@
      "opening-step-damper" :> [n |-> "MV:0", rw |-> "R"]) @@
  "zone2" :> (
      "onoff" :> [n |-> "BV:7", rw |-> "R/W"] @@
      "local-ventilation" :> [n |-> "BV:8", rw |-> "R/W"] @@
      "vacation-override" :> [n |-> "BV:9", rw |-> "R"] @@
      "unoccupied-override" :> [n |-> "BV:10", rw |-> "R"] @@
      "room-temperature" :> [n |-> "AI:1", rw |-> "R"] @@
      "heat-set-point" :> [n |-> "AV:3", rw |-> "R/W"] @@
      "cold-set-point" :> [n |-> "AV:4", rw |-> "R/W"] @@
      "cooling-demand" :> [n |-> "AV:18", rw |-> "R"] @@
      "heating-demand" :> [n |-> "AV:19", rw |-> "R"] @@
      "aux-heating-demand" :> [n |-> "AV:20", rw |-> "R"] @@
      "humidity" :> [n |-> "AV:34", rw |-> "R"] @@
      "opening-step-damper" :> [n |-> "MV:1", rw |-> "R"]) @@
  "zone3" :> (
      "onoff" :> [n |-> "BV:11", rw |-> "R/W"] @@
      "local-ventilation" :> [n |-> "BV:12", rw |-> "R/W"] @@
      "vacation-override" :> [n |-> "BV:13", rw |-> "R"] @@
      "unoccupied-override" :> [n |-> "BV:14", rw |-> "R"] @@
      "room-temperature" :> [n |-> "AI:2", rw |-> "R"] @@
      "heat-set-point" :> [n |-> "AV:5", rw |-> "R/W"] @@
      "cold-set-point" :> [n |-> "AV:6", rw |-> "R/W"] @@
      "cooling-demand" :> [n |-> "AV:21", rw |-> "R"] @@
      "heating-demand" :> [n |-> "AV:22", rw |-> "R"] @@
      "aux-heating-demand" :> [n |-> "AV:23", rw |-> "R"] @@
      "humidity" :> [n |-> "AV:35", rw |-> "R"] @@
      "opening-step-damper" :> [n |-> "MV:2", rw |-> "R"]) @@
  "zone4" :> (
      "onoff" :> [n |-> "BV:15", rw |-> "R/W"] @@
      "local-ventilation" :> [n |-> "BV:16", rw |-> "R/W"] @@
      "vacation-override" :> [n |-> "BV:17", rw |-> "R"] @@
      "unoccupied-override" :> [n |-> "BV:18", rw |-> "R"] @@
      "room-temperature" :> [n |-> "AI:3", rw |-> "R"] @@
      "heat-set-point" :> [n |-> "AV:7", rw |-> "R/W"] @@
      "cold-set-point" :> [n |-> "AV:8", rw |-> "R/W"] @@
      "cooling-demand" :> [n |-> "AV:24", rw |-> "R"] @@
      "heating-demand" :> [n |-> "AV:25", rw |-> "R"] @@
      "aux-heating-demand" :> [n |-> "AV:26", rw |-> "R"] @@
      "humidity" :> [n |-> "AV:36", rw |-> "R"] @@
      "opening-step-damper" :> [n |-> "MV:3", rw |-> "R"]) @@
  "zone5" :> (
      "onoff" :> [n |-> "BV:19", rw |-> "R/W"] @@
      "local-ventilation" :> [n |-> "BV:20", rw |-> "R/W"] @@
      "vacation-override" :> [n |-> "BV:21", rw |-> "R"] @@
      "unoccupied-override" :> [n |-> "BV:22", rw |-> "R"] @@
      "room-temperature" :> [n |-> "AI:4", rw |-> " R"] @@
      "heat-set-point" :> [n |-> "AV:9", rw |-> "R/W"] @@
      "cold-set-point" :> [n |-> "AV:10", rw |-> "R/W"] @@
      "cooling-demand" :> [n |-> "AV:27", rw |-> "R"] @@
      "heating-demand" :> [n |-> "AV:28", rw |-> "R"] @@
      "aux-heating-demand" :> [n |-> "AV:29", rw |-> "R"] @@
      "humidity" :> [n |-> "AV:37", rw |-> "R"] @@
      "opening-step-damper" :> [n |-> "MV:4", rw |-> "R"]) @@
  "zone6" :> (
      "onoff" :> [n |-> "BV:23", rw |-> "R/W"] @@
      "local-ventilation" :> [n |-> "BV:24", rw |-> "R/W"] @@
      "vacation-override" :> [n |-> "BV:25", rw |-> "R"] @@
      "unoccupied-override" :> [n |-> "BV:26", rw |-> "R"] @@
      "room-temperature" :> [n |-> "AI:5", rw |-> " R"] @@
      "heat-set-point" :> [n |-> "AV:11", rw |-> "R/W"] @@
      "cold-set-point" :> [n |-> "AV:12", rw |-> "R/W"] @@
      "cooling-demand" :> [n |-> "AV:30", rw |-> "R"] @@
      "heating-demand" :> [n |-> "AV:31", rw |-> "R"] @@
      "aux-heating-demand" :> [n |-> "AV:32", rw |-> "R"] @@
      "humidity" :> [n |-> "AV:38", rw |-> "R"] @@
      "opening-step-damper" :> [n |-> "MV:5", rw |-> "R"])


(* ---------------------------------------------------------------- inputs *)
\* config["dzk-bacnet"].ipAddress
ConfigIpAddress == "192.168.1.20"

\* config["dzk-bacnet"].zones, as the list of their zone numbers
ConfigZoneLists == { <<1>>, <<7>> }

\* present values the device reports for the demand objects (percent)
DemandValues == {0, 15}

\* present values of the temperature objects, tenths of a degree Fahrenheit
DeviceTemperatures == {770}

\* present values of the humidity objects, tenths of a percent
DeviceHumidities == {500}

\* present values of the binary object dzk-global-fan
DeviceFanValues == {0, 1}

\* present values of the multi-state object dzk-operation-mode
DeviceOperationModes == {DzkOperationMode_AUTO, DzkOperationMode_COOL,
                         DzkOperationMode_HEAT, DzkOperationMode_DRY}

\* values the host passes to the set handlers
HostTargetStates == {TargetHeatingCoolingState_OFF, TargetHeatingCoolingState_HEAT,
                     TargetHeatingCoolingState_COOL, TargetHeatingCoolingState_AUTO}
HostTemperatures == {250}
\* the unit the device is configured to report in (config parameter 'deviceUnits')
ConfigDeviceUnits == { CELSIUS, FAHRENHEIT }

HostDisplayUnits == {CELSIUS, FAHRENHEIT}

(* ----------------------------------------------------------------- state *)
VARIABLES
  config_zones,    \* the configured zone list (fixed by Init)
  built,           \* accessories constructed so far by discoverDevices
  ipAddress,       \* static DzkZone.ipAddress
  dzk_opmode,      \* static DzkZone.dzk_opmode
  internalStates,  \* per accessory: DzkZoneAccessory.internalStates
  lastDemand,      \* per accessory: its DzkZone.lastDemand
  tasks,           \* the invocations awaiting the transport, in the order they were started
  ev,              \* what the latest step did, as the host and the log saw it
  calls,           \* handler invocations made so far
  devOpmode,       \* the device's present value of dzk-operation-mode
  accessories,     \* platform.accessories: the UUIDs of the restored cached accessories
  registered       \* the UUIDs handed to registerPlatformAccessories, in order

vars == << config_zones, built, ipAddress, dzk_opmode, internalStates, lastDemand,
           tasks, ev, calls, devOpmode, accessories, registered >>

Accessories == 1..built

\* api.hap.uuid.generate("dzk-bacnet-zone-" + device.zone): equal seeds give
\* equal UUIDs, different seeds different ones
uuid(zone) == "dzk-bacnet-zone-" \o ToString(zone)

\* this.zconfig["zone"] of accessory a
zno(a) == config_zones[a]

(* ------------------------------------------------------------- transport *)
\* What a synchronous piece of code ends with: a request handed to the
\* transport (a pending promise) or a thrown TypeError.
NoRequest == [kind |-> "none", addr |-> "", scope |-> "", id |-> "", n |-> "",
              type |-> <<>>, value |-> <<>>]

TypeError == [throw |-> TRUE, req |-> NoRequest]

\* asyncReadPresentValue(address, po): a read of po's present value is sent
asyncReadPresentValue(addr, scope, id) ==
  [throw |-> FALSE,
   req |-> [kind |-> "read", addr |-> addr, scope |-> scope, id |-> id,
            n |-> dzk_objects[scope][id].n, type |-> <<>>, value |-> <<>>]]

\* asyncWritePresentValue(address, po, val): val is a number or a
\* ValueObject {type, value}, given here as <<value>> or <<type, value>>
asyncWritePresentValue(addr, scope, id, val) ==
  [throw |-> FALSE,
   req |-> [kind |-> "write", addr |-> addr, scope |-> scope, id |-> id,
            n |-> dzk_objects[scope][id].n,
            type |-> IF Len(val) = 2 THEN <<val[1]>> ELSE <<>>,
            value |-> <<val[Len(val)]>>]]

\* The values a successful read of an object can carry.
PresentValues(id) ==
  CASE id \in {"heating-demand", "cooling-demand"} -> DemandValues
    [] id \in {"room-temperature", "heat-set-point", "cold-set-point"} -> DeviceTemperatures
    [] id = "humidity" -> DeviceHumidities
    [] id = "dzk-global-fan" -> DeviceFanValues
    [] OTHER -> DeviceOperationModes

(* ------------------------------------------------------------ controller *)
\* "zone" + zno
ZoneScope(z) == "zone" \o ToString(z)

\* this.dzkob = DzkZone.dzk_objects["zone" + zno]: undefined outside the directory
dzkob_defined(a) == ZoneScope(zno(a)) \in DOMAIN dzk_objects

getGlobalPv(id) ==
  IF id \in DOMAIN dzk_objects["global"]
    THEN asyncReadPresentValue(ipAddress, "global", id)
    ELSE TypeError

setGlobalPv(id, val) ==
  IF id \in DOMAIN dzk_objects["global"]
    THEN asyncWritePresentValue(ipAddress, "global", id, val)
    ELSE TypeError

getZonePv(a, id) ==
  IF dzkob_defined(a) /\ id \in DOMAIN dzk_objects[ZoneScope(zno(a))]
    THEN asyncReadPresentValue(ipAddress, ZoneScope(zno(a)), id)
    ELSE TypeError

setZonePv(a, id, val) ==
  IF dzkob_defined(a) /\ id \in DOMAIN dzk_objects[ZoneScope(zno(a))]
    THEN asyncWritePresentValue(ipAddress, ZoneScope(zno(a)), id, val)
    ELSE TypeError

\* getCurrentHeatingCoolingState returning pred itself
getCurrentHeatingCoolingState_rv_pred(hd, cd) ==
  (IF cd > 0 THEN 2 ELSE 0) + (IF hd > 0 THEN 1 ELSE 0)

\* getCurrentHeatingCoolingState with case 3 of the switch falling into heat
getCurrentHeatingCoolingState_rv_bothHeat(hd, cd) ==
  IF hd > 0 THEN 1 ELSE IF cd > 0 THEN 2 ELSE 0

\* getCurrentHeatingCoolingState: the value returned for demands hd, cd
getCurrentHeatingCoolingState_rv(hd, cd) ==
  LET pred == (IF cd > 0 THEN 2 ELSE 0) + (IF hd > 0 THEN 1 ELSE 0)
  IN  CASE pred = 0 -> 0
        [] pred = 1 -> 1
        [] pred = 2 -> 2
        [] pred = 3 -> 0

\* getCurrentHeatingCoolingState: this.lastDemand after demands hd, cd
getCurrentHeatingCoolingState_lastDemand(hd, cd, old) ==
  IF hd > 0 \/ cd > 0 THEN hd - cd ELSE old

\* getTargetTemperature falling back to the cold set point for an unknown mode
getTargetTemperature_bac_ob_defaultCold(opmode, ld) ==
  CASE opmode \in {DzkOperationMode_AUTO, DzkOperationMode_DRY} ->
         IF ld > 0 THEN "heat-set-point" ELSE "cold-set-point"
    [] opmode = DzkOperationMode_COOL -> "cold-set-point"
    [] opmode = DzkOperationMode_HEAT -> "heat-set-point"
    [] OTHER -> "cold-set-point"

\* getTargetTemperature taking a lastDemand of zero for heating demand
getTargetTemperature_bac_ob_geq(opmode, ld) ==
  CASE opmode \in {DzkOperationMode_AUTO, DzkOperationMode_DRY} ->
         IF ld >= 0 THEN "heat-set-point" ELSE "cold-set-point"
    [] opmode = DzkOperationMode_COOL -> "cold-set-point"
    [] opmode = DzkOperationMode_HEAT -> "heat-set-point"
    [] OTHER -> ""

\* the bac_ob that getTargetTemperature hands to getZonePv
getTargetTemperature_bac_ob(opmode, ld) ==
  CASE opmode \in {DzkOperationMode_AUTO, DzkOperationMode_DRY} ->
         IF ld > 0 THEN "heat-set-point" ELSE "cold-set-point"
    [] opmode = DzkOperationMode_COOL -> "cold-set-point"
    [] opmode = DzkOperationMode_HEAT -> "heat-set-point"
    [] OTHER -> ""

\* the object that setTargetTemperature hands to setZonePv: the switch on
\* dzk_opmode computes bac_ob, the call does not use it
setTargetTemperature_bac_ob(opmode, ld) ==
  IF ld > 0 THEN "heat-set-point" ELSE "cold-set-point"

\* to_hap_target_heatcool_state without the case for DRY
to_hap_target_heatcool_state_noDry(dzk) ==
  CASE dzk = DzkOperationMode_AUTO -> TargetHeatingCoolingState_AUTO
    [] dzk = DzkOperationMode_COOL -> TargetHeatingCoolingState_COOL
    [] dzk = DzkOperationMode_HEAT -> TargetHeatingCoolingState_HEAT
    [] OTHER -> 0

to_hap_target_heatcool_state(dzk) ==
  CASE dzk = DzkOperationMode_AUTO -> TargetHeatingCoolingState_AUTO
    [] dzk = DzkOperationMode_COOL -> TargetHeatingCoolingState_COOL
    [] dzk = DzkOperationMode_HEAT -> TargetHeatingCoolingState_HEAT
    [] dzk = DzkOperationMode_DRY -> TargetHeatingCoolingState_COOL
    [] OTHER -> 0

\* to_hap_fanstate reporting a running fan as idle
to_hap_fanstate_idle(dzk) ==
  IF dzk = 0 THEN CurrentFanState_INACTIVE ELSE CurrentFanState_IDLE

to_hap_fanstate(dzk) ==
  IF dzk = 0 THEN CurrentFanState_INACTIVE ELSE CurrentFanState_BLOWING_AIR

\* from_hap_target_heatcool_state sending the device to DRY for OFF
from_hap_target_heatcool_state_offDry(hap) ==
  CASE hap = TargetHeatingCoolingState_HEAT -> DzkOperationMode_HEAT
    [] hap = TargetHeatingCoolingState_COOL -> DzkOperationMode_COOL
    [] hap = TargetHeatingCoolingState_AUTO -> DzkOperationMode_AUTO
    [] hap = TargetHeatingCoolingState_OFF -> DzkOperationMode_DRY
    [] OTHER -> DzkOperationMode_AUTO

from_hap_target_heatcool_state(hap) ==
  CASE hap = TargetHeatingCoolingState_HEAT -> DzkOperationMode_HEAT
    [] hap = TargetHeatingCoolingState_COOL -> DzkOperationMode_COOL
    [] hap = TargetHeatingCoolingState_AUTO -> DzkOperationMode_AUTO
    [] hap = TargetHeatingCoolingState_OFF -> DzkOperationMode_AUTO
    [] OTHER -> DzkOperationMode_AUTO

\* The synchronous start of each DzkZone method: the first transport
\* request it issues, or the TypeError it throws. arg is <<>> or <<value>>.
DzkZone_getCurrentHeatingCoolingState_coolingFirst(a) == getZonePv(a, "cooling-demand")
DzkZone_getCurrentHeatingCoolingState(a) == getZonePv(a, "heating-demand")
DzkZone_getTargetHeatingCoolingState == getGlobalPv("dzk-operation-mode")
\* setTargetHeatingCoolingState writing the mode to the user-mode object
DzkZone_setTargetHeatingCoolingState_userMode(newState) ==
  setGlobalPv("dzk-user-mode", <<BACNET_APPLICATION_TAG_UNSIGNED_INT, newState>>)
DzkZone_setTargetHeatingCoolingState(newState) ==
  setGlobalPv("dzk-operation-mode", <<BACNET_APPLICATION_TAG_UNSIGNED_INT, newState>>)
DzkZone_getCurrentTemperature(a) == getZonePv(a, "room-temperature")
DzkZone_getCurrentFanState == getGlobalPv("dzk-global-fan")
DzkZone_getCurrentRelativeHumidity(a) == getZonePv(a, "humidity")
DzkZone_getHeatSetpoint(a) == getZonePv(a, "heat-set-point")
DzkZone_setHeatSetpoint(a, newTemp) == setZonePv(a, "heat-set-point", <<newTemp>>)
DzkZone_getCoolSetpoint(a) == getZonePv(a, "cold-set-point")
DzkZone_setCoolSetpoint(a, newTemp) == setZonePv(a, "cold-set-point", <<newTemp>>)
DzkZone_getTargetTemperature(a) ==
  getZonePv(a, getTargetTemperature_bac_ob(dzk_opmode, lastDemand[a]))
DzkZone_setTargetTemperature(a, newTemp) ==
  setZonePv(a, setTargetTemperature_bac_ob(dzk_opmode, lastDemand[a]), <<newTemp>>)

MethodStart(a, method, arg) ==
  CASE method = "getCurrentHeatingCoolingState" -> DzkZone_getCurrentHeatingCoolingState(a)
    [] method = "getTargetHeatingCoolingState" -> DzkZone_getTargetHeatingCoolingState
    [] method = "setTargetHeatingCoolingState" -> DzkZone_setTargetHeatingCoolingState(arg[1])
    [] method = "getCurrentTemperature" -> DzkZone_getCurrentTemperature(a)
    [] method = "getCurrentFanState" -> DzkZone_getCurrentFanState
    [] method = "getCurrentRelativeHumidity" -> DzkZone_getCurrentRelativeHumidity(a)
    [] method = "getHeatSetpoint" -> DzkZone_getHeatSetpoint(a)
    [] method = "setHeatSetpoint" -> DzkZone_setHeatSetpoint(a, arg[1])
    [] method = "getCoolSetpoint" -> DzkZone_getCoolSetpoint(a)
    [] method = "setCoolSetpoint" -> DzkZone_setCoolSetpoint(a, arg[1])
    [] method = "getTargetTemperature" -> DzkZone_getTargetTemperature(a)
    [] method = "setTargetTemperature" -> DzkZone_setTargetTemperature(a, arg[1])

(* -------------------------------------------------------------- handlers *)
\* Each handler of DzkZoneAccessory, as its statements in order:
\*   entry   what runs synchronously when the host invokes it ("callback":
\*           the host callback with a null error, "call": the controller
\*           method is called and awaited, "store": the value is cached)
\*   field   the internalStates field handed to a get callback / assigned
\*   argconv the conversion of the host's value handed to the method
\*   store   the conversion of the method's result assigned to field after
\*           the await ("none": nothing is assigned)
\*   catch   what the catch block does
Accessory_getCurrentHeatingCoolingState ==
  [op |-> "getCurrentHeatingCoolingState", kind |-> "get",
   field |-> "currentHeatingCoolingState", entry |-> <<"callback", "call">>,
   method |-> "getCurrentHeatingCoolingState", argconv |-> "none",
   store |-> "raw", catch |-> <<"log">>]

Accessory_getTargetHeatingCoolingState ==
  [op |-> "getTargetHeatingCoolingState", kind |-> "get",
   field |-> "targetHeatingCoolingState", entry |-> <<"callback", "call">>,
   method |-> "getTargetHeatingCoolingState", argconv |-> "none",
   store |-> "to_hap_target_heatcool_state", catch |-> <<"log">>]

Accessory_setTargetHeatingCoolingState ==
  [op |-> "setTargetHeatingCoolingState", kind |-> "set",
   field |-> "targetHeatingCoolingState", entry |-> <<"callback", "call">>,
   method |-> "setTargetHeatingCoolingState",
   argconv |-> "from_hap_target_heatcool_state",
   store |-> "to_hap_target_heatcool_state", catch |-> <<"log">>]

\* getCurrentTemperature dropping the result of its refresh
Accessory_getCurrentTemperature_noStore ==
  [op |-> "getCurrentTemperature", kind |-> "get",
   field |-> "currentTemperature", entry |-> <<"callback", "call">>,
   method |-> "getCurrentTemperature", argconv |-> "none",
   store |-> "none", catch |-> <<"log">>]

Accessory_getCurrentTemperature ==
  [op |-> "getCurrentTemperature", kind |-> "get",
   field |-> "currentTemperature", entry |-> <<"callback", "call">>,
   method |-> "getCurrentTemperature", argconv |-> "none",
   store |-> "f2c", catch |-> <<"log">>]

Accessory_getCurrentFanState ==
  [op |-> "getCurrentFanState", kind |-> "get",
   field |-> "currentFanState", entry |-> <<"callback", "call">>,
   method |-> "getCurrentFanState", argconv |-> "none",
   store |-> "to_hap_fanstate", catch |-> <<"log">>]

Accessory_getCurrentRelativeHumidity ==
  [op |-> "getCurrentRelativeHumidity", kind |-> "get",
   field |-> "relativeHumidity", entry |-> <<"callback", "call">>,
   method |-> "getCurrentRelativeHumidity", argconv |-> "none",
   store |-> "raw", catch |-> <<"log">>]

\* getTargetTemperature caching the set point as the device reports it
Accessory_getTargetTemperature_noConvert ==
  [op |-> "getTargetTemperature", kind |-> "get",
   field |-> "targetTemperature", entry |-> <<"callback", "call">>,
   method |-> "getTargetTemperature", argconv |-> "none",
   store |-> "raw", catch |-> <<"log">>]

Accessory_getTargetTemperature ==
  [op |-> "getTargetTemperature", kind |-> "get",
   field |-> "targetTemperature", entry |-> <<"callback", "call">>,
   method |-> "getTargetTemperature", argconv |-> "none",
   store |-> "f2c", catch |-> <<"log">>]

Accessory_setTargetTemperature ==
  [op |-> "setTargetTemperature", kind |-> "set",
   field |-> "targetTemperature", entry |-> <<"callback", "call">>,
   method |-> "setTargetTemperature", argconv |-> "c2f",
   store |-> "none", catch |-> <<"log">>]

Accessory_getHeatingThresholdTemperature ==
  [op |-> "getHeatingThresholdTemperature", kind |-> "get",
   field |-> "heatSetpoint", entry |-> <<"callback", "call">>,
   method |-> "getHeatSetpoint", argconv |-> "none",
   store |-> "f2c", catch |-> <<"log">>]

\* setHeatingThresholdTemperature acknowledging the host only after the write is issued
Accessory_setHeatingThresholdTemperature_lateCallback ==
  [op |-> "setHeatingThresholdTemperature", kind |-> "set",
   field |-> "heatSetpoint", entry |-> <<"call", "callback">>,
   method |-> "setHeatSetpoint", argconv |-> "c2f",
   store |-> "none", catch |-> <<"log">>]

Accessory_setHeatingThresholdTemperature ==
  [op |-> "setHeatingThresholdTemperature", kind |-> "set",
   field |-> "heatSetpoint", entry |-> <<"callback", "call">>,
   method |-> "setHeatSetpoint", argconv |-> "c2f",
   store |-> "none", catch |-> <<"log">>]

Accessory_getCoolingThresholdTemperature ==
  [op |-> "getCoolingThresholdTemperature", kind |-> "get",
   field |-> "coolSetpoint", entry |-> <<"callback", "call">>,
   method |-> "getCoolSetpoint", argconv |-> "none",
   store |-> "f2c", catch |-> <<"log">>]

Accessory_setCoolingThresholdTemperature ==
  [op |-> "setCoolingThresholdTemperature", kind |-> "set",
   field |-> "coolSetpoint", entry |-> <<"callback", "call">>,
   method |-> "setCoolSetpoint", argconv |-> "c2f",
   store |-> "none", catch |-> <<"log">>]

Accessory_getTemperatureDisplayUnits ==
  [op |-> "getTemperatureDisplayUnits", kind |-> "get",
   field |-> "temperatureDisplayUnits", entry |-> <<"callback">>,
   method |-> "", argconv |-> "none", store |-> "none", catch |-> <<>>]

\* setTemperatureDisplayUnits storing the unit where the target temperature is kept
Accessory_setTemperatureDisplayUnits_wrongField ==
  [op |-> "setTemperatureDisplayUnits", kind |-> "set",
   field |-> "targetTemperature", entry |-> <<"store", "callback">>,
   method |-> "", argconv |-> "none", store |-> "none", catch |-> <<>>]

Accessory_setTemperatureDisplayUnits ==
  [op |-> "setTemperatureDisplayUnits", kind |-> "set",
   field |-> "temperatureDisplayUnits", entry |-> <<"store", "callback">>,
   method |-> "", argconv |-> "none", store |-> "none", catch |-> <<>>]

\* the handlers the constructor registers with the characteristics
Handlers ==
  { Accessory_getCurrentHeatingCoolingState, Accessory_getTargetHeatingCoolingState,
    Accessory_setTargetHeatingCoolingState, Accessory_getCurrentTemperature,
    Accessory_getCurrentFanState, Accessory_getCurrentRelativeHumidity,
    Accessory_getTargetTemperature, Accessory_setTargetTemperature,
    Accessory_getHeatingThresholdTemperature, Accessory_setHeatingThresholdTemperature,
    Accessory_getCoolingThresholdTemperature, Accessory_setCoolingThresholdTemperature,
    Accessory_getTemperatureDisplayUnits, Accessory_setTemperatureDisplayUnits }

GetHandlers == { h \in Handlers : h.kind = "get" }
SetHandlers == { h \in Handlers : h.kind = "set" }
Handler(op) == CHOOSE h \in Handlers : h.op = op

\* the values the host hands to a set handler
HostValues(h) ==
  CASE h.op = "setTargetHeatingCoolingState" -> HostTargetStates
    [] h.op = "setTemperatureDisplayUnits" -> HostDisplayUnits
    [] OTHER -> HostTemperatures

\* the conversions the handlers apply, by the name the descriptors give them
Convert(conv, v) ==
  CASE conv = "f2c" -> f2c(v)
    [] conv = "c2f" -> c2f(v)
    [] conv = "to_hap_target_heatcool_state" -> to_hap_target_heatcool_state(v)
    [] conv = "from_hap_target_heatcool_state" -> from_hap_target_heatcool_state(v)
    [] conv = "to_hap_fanstate" -> to_hap_fanstate(v)
    [] OTHER -> v

Position(seq, e) ==
  IF \E i \in DOMAIN seq : seq[i] = e
    THEN CHOOSE i \in DOMAIN seq : seq[i] = e /\ \A j \in 1..(i - 1) : seq[j] # e
    ELSE 0

Count(seq, e) == Cardinality({ i \in DOMAIN seq : seq[i] = e })

\* a catch block that hands the error to the host callback
Catch_reportsError(h, cb) == [cb EXCEPT !.count = @ + 1, !.err = "error"]

\* the host callback as the catch block leaves it
Catch(h, cb) ==
  IF Count(h.catch, "callback") > 0
    THEN [cb EXCEPT !.count = @ + Count(h.catch, "callback"), !.err = "error"]
    ELSE cb

(* ------------------------------------------------------------------ Init *)
internalStates_default ==
  [currentHeatingCoolingState |-> CurrentHeatingCoolingState_OFF,
   targetHeatingCoolingState |-> TargetHeatingCoolingState_OFF,
   currentTemperature |-> 205,
   currentFanState |-> 0,
   coolSetpoint |-> 235,
   heatSetpoint |-> 215,
   targetTemperature |-> 220,
   relativeHumidity |-> 422,
   temperatureDisplayUnits |-> FAHRENHEIT]

NoCallback == [count |-> 0, err |-> "null", val |-> << >>, issued |-> 0]

\* One step of the program as seen from outside: kind is "construct",
\* "device", "unhandled" (the rejection of a promise nobody awaits),
\* "call" (a handler suspended on the transport), "returned" (a
\* handler that needs no transport), "threw" (its controller method threw and
\* the catch block ran), "next" (a first read resolved and the second was
\* issued), "resolved" or "rejected"; a and op name the accessory and the
\* handler, v lists the values of the step (the host's argument of a call, the
\* values the transport resolved with since the call otherwise), and
\* callbacks lists the host callbacks made in the step, in order.
Event(kind, a, op, v, callbacks) ==
  [kind |-> kind, a |-> a, op |-> op, v |-> v, callbacks |-> callbacks]

\* the callbacks of a handler's synchronous part, from its callback record
Callbacks(cb, n) ==
  [i \in 1..n |-> [err |-> IF i = 1 THEN "null" ELSE cb.err, val |-> IF i = 1 THEN cb.val ELSE << >>,
                    issued |-> cb.issued]]

\* An invocation suspended at an await: the handler op of accessory a (or
\* the DzkZone constructor), the controller method it awaits with its
\* argument, the method's position (step, and hd once it is read), the
\* pending transport request and whether the device has processed it, and
\* the callback the host has received.
NewTask(a, op, method, arg, req, cb) ==
  [a |-> a, op |-> op, method |-> method, arg |-> arg, step |-> 1,
   hd |-> << >>, req |-> req, pc |-> "sent", resp |-> << >>, cb |-> cb]

Remove(seq, i) == SubSeq(seq, 1, i - 1) \o SubSeq(seq, i + 1, Len(seq))

Init ==
  /\ config_zones \in ConfigZoneLists
  /\ built = 0
  /\ ipAddress = ""
  /\ dzk_opmode = -1
  /\ internalStates = << >>
  /\ lastDemand = << >>
  /\ tasks = << >>
  /\ ev = Event("init", 0, "", << >>, << >>)
  /\ calls = 0
  /\ devOpmode \in DeviceOperationModes
  /\ accessories = {}
  /\ registered = << >>

(* --------------------------------------------------------------- actions *)
\* a constructor that leaves the static address as it finds it
DzkZoneAccessory_ipAddress_untouched(old, configured) == old

\* DzkZone.ipAddress after the constructor's "only set this once" block
DzkZoneAccessory_ipAddress(old, configured) ==
  IF old = "" THEN configured ELSE old

\* One pass of the loop over config["dzk-bacnet"].zones in discoverDevices:
\* new DzkZoneAccessory(...), which sets the static address once and
\* constructs its DzkZone; that constructor starts getTargetHeatingCoolingState
\* without awaiting it while dzk_opmode is -1.
Construct ==
  /\ built < Len(config_zones)
  /\ built' = built + 1
  /\ ipAddress' = DzkZoneAccessory_ipAddress(ipAddress, ConfigIpAddress)
  /\ internalStates' = Append(internalStates, internalStates_default)
  /\ lastDemand' = Append(lastDemand, 0)
  /\ tasks' =
       IF dzk_opmode = -1
         THEN LET start == asyncReadPresentValue(ipAddress', "global", "dzk-operation-mode")
              IN  Append(tasks, NewTask(built', "constructor",
                                        "getTargetHeatingCoolingState", << >>,
                                        start.req, NoCallback))
         ELSE tasks
  /\ ev' = Event("construct", built', "constructor", << >>, << >>)
  /\ registered' = IF uuid(config_zones[built']) \in accessories
                     THEN registered
                     ELSE Append(registered, uuid(config_zones[built']))
  /\ UNCHANGED << config_zones, dzk_opmode, calls, devOpmode, accessories >>

\* discoverDevices runs to completion before any handler or continuation runs
Running == built = Len(config_zones)

\* The host invokes handler h of accessory a (arg: << >> for a get, <<value>>
\* for a set): everything the handler does up to its first suspension.
HandlerCall(a, h, arg) ==
  LET hasCall == Count(h.entry, "call") > 0
      marg    == IF arg = << >> THEN << >> ELSE << Convert(h.argconv, arg[1]) >>
      start   == IF hasCall THEN MethodStart(a, h.method, marg) ELSE TypeError
      sent    == hasCall /\ ~start.throw
      cb0     == [count  |-> Count(h.entry, "callback"),
                  err    |-> "null",
                  val    |-> IF h.kind = "get" THEN << internalStates[a][h.field] >> ELSE << >>,
                  issued |-> IF sent /\ Position(h.entry, "call") < Position(h.entry, "callback")
                               THEN 1 ELSE 0]
      cb      == IF hasCall /\ start.throw THEN Catch(h, cb0) ELSE cb0
      t       == NewTask(a, h.op, h.method, marg, start.req, cb)
  IN  /\ Running
      /\ calls < MaxCalls
      /\ calls' = calls + 1
      /\ internalStates' =
           IF Count(h.entry, "store") > 0
             THEN [internalStates EXCEPT ![a][h.field] = arg[1]]
             ELSE internalStates
      /\ tasks' = IF sent THEN Append(tasks, t) ELSE tasks
      /\ ev' = Event(IF sent THEN "call" ELSE IF hasCall THEN "threw" ELSE "returned",
                     a, h.op, arg, Callbacks(cb, cb.count))
      /\ UNCHANGED << accessories, registered, config_zones, built, ipAddress, dzk_opmode, lastDemand, devOpmode >>

Get(a, h) == HandlerCall(a, h, << >>)

Set(a, h, value) == HandlerCall(a, h, << value >>)

\* The device processes a request on its operation-mode object: a read takes
\* the present value, a write replaces it.
DeviceAnswer(i) ==
  LET t == tasks[i]
  IN  /\ t.pc = "sent"
      /\ t.req.id = "dzk-operation-mode"
      /\ devOpmode' = IF t.req.kind = "write" THEN t.req.value[1] ELSE devOpmode
      /\ tasks' = [tasks EXCEPT ![i] =
                     [t EXCEPT !.pc = "answered",
                               !.resp = IF t.req.kind = "read" THEN << devOpmode >>
                                                               ELSE t.req.value]]
      /\ ev' = Event("device", 0, "", << >>, << >>)
      /\ UNCHANGED << accessories, registered, config_zones, built, ipAddress, dzk_opmode, internalStates,
                      lastDemand, calls >>

\* the values the pending request of t can resolve with
Responses(t) ==
  IF t.req.id = "dzk-operation-mode"
    THEN IF t.pc = "answered" THEN { t.resp[1] } ELSE {}
    ELSE IF t.req.kind = "write" THEN { t.req.value[1] } ELSE PresentValues(t.req.id)

\* getTargetHeatingCoolingState returning the shared mode as it was before the read
MethodReturn_cachedMode(t, v) ==
  CASE t.method = "getCurrentHeatingCoolingState" -> getCurrentHeatingCoolingState_rv(t.hd[1], v)
    [] t.method = "getTargetHeatingCoolingState" -> dzk_opmode
    [] t.method = "setTargetHeatingCoolingState" -> t.arg[1]
    [] OTHER -> v

\* what the awaited controller method returns once its last request resolved with v
MethodReturn(t, v) ==
  CASE t.method = "getCurrentHeatingCoolingState" -> getCurrentHeatingCoolingState_rv(t.hd[1], v)
    [] t.method = "getTargetHeatingCoolingState" -> v
    [] t.method = "setTargetHeatingCoolingState" -> t.arg[1]
    [] OTHER -> v

\* a mode read that is dropped once the shared mode is known
AfterResolve_dzk_opmode_keepKnown(t, v) ==
  CASE t.method = "getTargetHeatingCoolingState" ->
         IF dzk_opmode = -1 THEN v ELSE dzk_opmode
    [] t.method = "setTargetHeatingCoolingState" -> t.arg[1]
    [] OTHER -> dzk_opmode

\* a getCurrentHeatingCoolingState that also derives the shared mode from demand
AfterResolve_dzk_opmode_fromDemand(t, v) ==
  CASE t.method = "getTargetHeatingCoolingState" -> v
    [] t.method = "setTargetHeatingCoolingState" -> t.arg[1]
    [] t.method = "getCurrentHeatingCoolingState" ->
         IF t.hd[1] > 0 THEN DzkOperationMode_HEAT
         ELSE IF v > 0 THEN DzkOperationMode_COOL ELSE dzk_opmode
    [] OTHER -> dzk_opmode

\* DzkZone.dzk_opmode once the method of t has run to its end: only
\* getTargetHeatingCoolingState and setTargetHeatingCoolingState assign it
AfterResolve_dzk_opmode(t, v) ==
  CASE t.method = "getTargetHeatingCoolingState" -> v
    [] t.method = "setTargetHeatingCoolingState" -> t.arg[1]
    [] OTHER -> dzk_opmode

\* The transport promise of the i-th pending invocation resolves with v and
\* the code after the await runs.
TransportResolve(i, v) ==
  LET t == tasks[i]
  IN  /\ Running
      /\ v \in Responses(t)
      /\ IF t.method = "getCurrentHeatingCoolingState" /\ t.step = 1
           THEN \* hd is read; the read of cooling-demand is issued
                /\ tasks' = [tasks EXCEPT ![i] =
                               [t EXCEPT !.step = 2, !.hd = << v >>,
                                         !.req = getZonePv(t.a, "cooling-demand").req]]
                /\ ev' = Event("next", t.a, t.op, << v >>, << >>)
                /\ UNCHANGED << dzk_opmode, internalStates, lastDemand >>
           ELSE /\ tasks' = Remove(tasks, i)
                /\ ev' = Event("resolved", t.a, t.op, t.hd \o << v >>, << >>)
                /\ dzk_opmode' = AfterResolve_dzk_opmode(t, v)
                /\ lastDemand' =
                     IF t.method = "getCurrentHeatingCoolingState"
                       THEN [lastDemand EXCEPT ![t.a] =
                               getCurrentHeatingCoolingState_lastDemand(t.hd[1], v, @)]
                       ELSE lastDemand
                /\ internalStates' =
                     IF t.op # "constructor" /\ Handler(t.op).store # "none"
                       THEN [internalStates EXCEPT ![t.a][Handler(t.op).field] =
                               Convert(Handler(t.op).store, MethodReturn(t, v))]
                       ELSE internalStates
      /\ UNCHANGED << accessories, registered, config_zones, built, ipAddress, calls, devOpmode >>

\* a catch block that puts the caches of every accessory back to the defaults
AfterReject_resetsAll(t) ==
  [dzk_opmode |-> dzk_opmode,
   internalStates |-> [b \in DOMAIN internalStates |-> internalStates_default],
   lastDemand |-> [b \in DOMAIN lastDemand |-> 0]]

\* setTargetHeatingCoolingState assigning dzk_opmode before it awaits the write
AfterReject_assignsMode(t) ==
  [dzk_opmode |-> IF t.method = "setTargetHeatingCoolingState" THEN t.arg[1] ELSE dzk_opmode,
   internalStates |-> internalStates, lastDemand |-> lastDemand]

\* a catch block that resets the cached value of the handler's characteristic
AfterReject_clearsCache(t) ==
  [dzk_opmode |-> dzk_opmode,
   internalStates |->
     IF t.op = "constructor" THEN internalStates
     ELSE [internalStates EXCEPT ![t.a][Handler(t.op).field] = 0],
   lastDemand |-> lastDemand]

\* What the rejection of the awaited request of t leaves of the caches: the
\* controller method throws at its await, before any assignment, and the
\* catch block of the handler only logs.
AfterReject(t) ==
  [dzk_opmode |-> dzk_opmode, internalStates |-> internalStates, lastDemand |-> lastDemand]

\* The transport promise of the i-th pending invocation rejects (timeout,
\* protocol error): the handler's catch block runs; the constructor's call
\* has none, and the rejection is left unhandled.
TransportReject(i) ==
  LET t == tasks[i]
  IN  /\ Running
      /\ tasks' = Remove(tasks, i)
      /\ dzk_opmode' = AfterReject(t).dzk_opmode
      /\ internalStates' = AfterReject(t).internalStates
      /\ lastDemand' = AfterReject(t).lastDemand
      /\ ev' = Event(IF t.op = "constructor" THEN "unhandled" ELSE "rejected",
                     t.a, t.op, << >>,
                     IF t.op = "constructor" THEN << >>
                     ELSE LET cb == Catch(Handler(t.op), t.cb)
                          IN  [k \in 1..(cb.count - t.cb.count) |->
                                 [err |-> cb.err, val |-> << >>, issued |-> 1]])
      /\ UNCHANGED << accessories, registered, config_zones, built, ipAddress, calls, devOpmode >>

Next ==
  \/ Construct
  \/ \E a \in Accessories : \E h \in GetHandlers : Get(a, h)
  \/ \E a \in Accessories : \E h \in SetHandlers : \E value \in HostValues(h) : Set(a, h, value)
  \/ \E i \in DOMAIN tasks : DeviceAnswer(i)
  \/ \E i \in DOMAIN tasks : \E v \in Responses(tasks[i]) : TransportResolve(i, v)
  \/ \E i \in DOMAIN tasks : TransportReject(i)

Spec == Init /\ [][Next]_vars

\* a platform whose configuration lists two zones
ConfigTwoZones == { << 1, 2 >> }

\* the mode its device is in when that platform starts: one no host value maps to
DeviceStartModesTwo == { DzkOperationMode_DRY }

InitTwo ==
  /\ config_zones \in ConfigTwoZones
  /\ built = 0
  /\ ipAddress = ""
  /\ dzk_opmode = -1
  /\ internalStates = << >>
  /\ lastDemand = << >>
  /\ tasks = << >>
  /\ ev = Event("init", 0, "", << >>, << >>)
  /\ calls = 0
  /\ devOpmode \in DeviceStartModesTwo
  /\ accessories = {}
  /\ registered = << >>

SpecTwo == InitTwo /\ [][Next]_vars

(* ---------------------------------------------------------------- claims *)
\* the steps in which the host invokes a handler
CallKinds == {"call", "returned", "threw"}

IsGet(op) == \E h \in GetHandlers : h.op = op
IsSet(op) == \E h \in SetHandlers : h.op = op

\* the internalStates field of the characteristic a handler serves
Field(op) ==
  CASE op \in {"getCurrentHeatingCoolingState"} -> "currentHeatingCoolingState"
    [] op \in {"getTargetHeatingCoolingState", "setTargetHeatingCoolingState"} ->
         "targetHeatingCoolingState"
    [] op \in {"getCurrentTemperature"} -> "currentTemperature"
    [] op \in {"getCurrentFanState"} -> "currentFanState"
    [] op \in {"getCurrentRelativeHumidity"} -> "relativeHumidity"
    [] op \in {"getTargetTemperature", "setTargetTemperature"} -> "targetTemperature"
    [] op \in {"getHeatingThresholdTemperature", "setHeatingThresholdTemperature"} ->
         "heatSetpoint"
    [] op \in {"getCoolingThresholdTemperature", "setCoolingThresholdTemperature"} ->
         "coolSetpoint"
    [] op \in {"getTemperatureDisplayUnits", "setTemperatureDisplayUnits"} ->
         "temperatureDisplayUnits"

\* the invocations of handlers that await the transport
PendingHandlers == { i \in DOMAIN tasks : tasks[i].op # "constructor" }

\* C1: every handler calls the host callback before it issues any transport
\* read or write (an invocation that awaits the transport has called back,
\* and had issued nothing when it did); the value a get callback receives is
\* the cached value at the moment of the call, and no callback is made when
\* the refresh resolves.
C1_CallbackFirst ==
  /\ \A i \in PendingHandlers :
       tasks[i].cb.count >= 1 /\ tasks[i].cb.issued = 0
  /\ ev.kind \in CallKinds =>
       /\ Len(ev.callbacks) >= 1
       /\ ev.callbacks[1].issued = 0
       /\ IsGet(ev.op) => ev.callbacks[1].val = << internalStates[ev.a][Field(ev.op)] >>
  /\ ev.kind \in {"next", "resolved"} => ev.callbacks = << >>

\* a set handler has acknowledged the host and its write is pending, unanswered
C1_Witness ==
  /\ ev.kind = "call"
  /\ ev.op = "setHeatingThresholdTemperature"
  /\ \E i \in PendingHandlers :
       /\ tasks[i].op = ev.op
       /\ tasks[i].req.kind = "write"
       /\ tasks[i].cb.count = 1

\* the value a successful refresh of a getter caches, from the values vs the
\* transport resolved with
RefreshedValue(op, vs) ==
  CASE op = "getCurrentHeatingCoolingState" ->
         IF vs[1] > 0 /\ vs[2] = 0 THEN CurrentHeatingCoolingState_HEAT
         ELSE IF vs[2] > 0 /\ vs[1] = 0 THEN CurrentHeatingCoolingState_COOL
         ELSE CurrentHeatingCoolingState_OFF
    [] op = "getTargetHeatingCoolingState" -> to_hap_target_heatcool_state(vs[1])
    [] op = "getCurrentFanState" -> to_hap_fanstate(vs[1])
    [] op = "getCurrentRelativeHumidity" -> vs[1]
    [] OTHER -> f2c(vs[1])

\* C2: the first handler invocation of a behaviour, made before any refresh
\* has resolved, hands the host the default of internalStates; when the
\* refresh of a getter resolves, the cache holds the converted device value,
\* and every get callback receives what the cache holds, so the next call
\* returns the refreshed value.
C2_StaleThenRefreshed ==
  /\ (ev.kind \in CallKinds /\ IsGet(ev.op) /\ calls = 1) =>
       ev.callbacks[1].val = << internalStates_default[Field(ev.op)] >>
  /\ (ev.kind = "resolved" /\ IsGet(ev.op)) =>
       internalStates[ev.a][Field(ev.op)] = RefreshedValue(ev.op, ev.v)
  /\ (ev.kind \in CallKinds /\ IsGet(ev.op)) =>
       ev.callbacks[1].val = << internalStates[ev.a][Field(ev.op)] >>

\* the second call of getCurrentTemperature returns the converted 77.0 F
C2_Witness ==
  /\ calls = 2
  /\ ev.kind = "call"
  /\ ev.op = "getCurrentTemperature"
  /\ ev.callbacks[1].val = << f2c(770) >>
  /\ f2c(770) # internalStates_default.currentTemperature

\* C3: a step in which the transport read of a get handler fails leaves
\* internalStates as it was.
C3_FailedReadKeepsCache ==
  [][(ev'.kind = "rejected" /\ IsGet(ev'.op)) => internalStates' = internalStates]_vars

\* a humidity refresh fails after an earlier one had cached 50.0 %
C3_Witness ==
  /\ ev.kind = "rejected"
  /\ ev.op = "getCurrentRelativeHumidity"
  /\ internalStates[ev.a].relativeHumidity = 500

\* C4: every handler invocation calls the host callback exactly once, with a
\* null error: once in the step of the invocation, never again when the
\* awaited call resolves, rejects, or when the controller method throws.
C4_CallbackOnceNullError ==
  /\ \A i \in PendingHandlers :
       tasks[i].cb.count = 1 /\ tasks[i].cb.err = "null"
  /\ ev.kind \in CallKinds =>
       Len(ev.callbacks) = 1 /\ ev.callbacks[1].err = "null"
  /\ ev.kind \in {"next", "resolved", "rejected"} => ev.callbacks = << >>

\* the write of a target-mode set has failed and the host heard nothing more
C4_Witness ==
  /\ ev.kind = "rejected"
  /\ ev.op = "setTargetHeatingCoolingState"
  /\ ev.callbacks = << >>

\* the consumer-side value of the characteristic after the device accepted w
WrittenValue(op, w) ==
  IF op = "setTargetHeatingCoolingState" THEN to_hap_target_heatcool_state(w) ELSE f2c(w)

\* C5 (as claimed): when the write of a set handler has resolved, the cached
\* value of its characteristic is the written value.
C5_SetUpdatesCache ==
  (ev.kind = "resolved" /\ IsSet(ev.op)) =>
    internalStates[ev.a][Field(ev.op)] = WrittenValue(ev.op, ev.v[1])

\* C6: when getCurrentHeatingCoolingState has read heating demand hd and
\* cooling demand cd, the state is OFF for (0, 0), HEAT for hd > 0 = cd, COOL
\* for cd > 0 = hd and OFF for both > 0; lastDemand becomes hd - cd when one
\* of them is nonzero and keeps its value otherwise, and no other step
\* changes lastDemand.
C6_DemandMapping ==
  [][LET done == ev'.kind = "resolved" /\ ev'.op = "getCurrentHeatingCoolingState"
     IN  /\ done =>
              LET hd == ev'.v[1]
                  cd == ev'.v[2]
                  a  == ev'.a
              IN  /\ internalStates'[a].currentHeatingCoolingState =
                       (CASE hd = 0 /\ cd = 0 -> CurrentHeatingCoolingState_OFF
                          [] hd > 0 /\ cd = 0 -> CurrentHeatingCoolingState_HEAT
                          [] cd > 0 /\ hd = 0 -> CurrentHeatingCoolingState_COOL
                          [] hd > 0 /\ cd > 0 -> CurrentHeatingCoolingState_OFF)
                  /\ lastDemand'[a] =
                       IF hd # 0 \/ cd # 0 THEN hd - cd ELSE lastDemand[a]
                  /\ \A b \in DOMAIN lastDemand : b # a => lastDemand'[b] = lastDemand[b]
         /\ ~done => \A b \in DOMAIN lastDemand : lastDemand'[b] = lastDemand[b]
    ]_vars

\* both demands were nonzero: the state is OFF and lastDemand is their difference
C6_Witness ==
  /\ ev.kind = "resolved"
  /\ ev.op = "getCurrentHeatingCoolingState"
  /\ ev.v[1] > 0 /\ ev.v[2] > 0
  /\ internalStates[ev.a].currentHeatingCoolingState = CurrentHeatingCoolingState_OFF
  /\ lastDemand[ev.a] = ev.v[1] - ev.v[2]

\* the invocation started by the latest step, when that step was a call
Started == tasks[Len(tasks)]

\* C7: with a known shared mode, getTargetTemperature issues a read of the
\* zone's heat-set-point when the mode is HEAT, of cold-set-point when it is
\* COOL, and in AUTO or DRY of heat-set-point when lastDemand > 0 and of
\* cold-set-point when lastDemand <= 0.
C7_TargetTemperatureReads ==
  (/\ ev.kind \in CallKinds
   /\ ev.op = "getTargetTemperature"
   /\ dzk_opmode \in DeviceOperationModes
   /\ dzkob_defined(ev.a)) =>
    /\ ev.kind = "call"
    /\ Started.op = ev.op /\ Started.a = ev.a
    /\ Started.req.kind = "read"
    /\ Started.req.scope = ZoneScope(zno(ev.a))
    /\ Started.req.id =
         (CASE dzk_opmode = DzkOperationMode_HEAT -> "heat-set-point"
            [] dzk_opmode = DzkOperationMode_COOL -> "cold-set-point"
            [] dzk_opmode \in {DzkOperationMode_AUTO, DzkOperationMode_DRY} ->
                 IF lastDemand[ev.a] > 0 THEN "heat-set-point" ELSE "cold-set-point")

\* in AUTO with a positive lastDemand the heat set point is being read
C7_Witness ==
  /\ ev.kind = "call"
  /\ ev.op = "getTargetTemperature"
  /\ dzk_opmode = DzkOperationMode_AUTO
  /\ lastDemand[ev.a] > 0
  /\ Started.req.id = "heat-set-point"

\* C8 (as claimed): with a known shared mode, setTargetTemperature writes to
\* the set-point object that getTargetTemperature would read in that state.
C8_SetMirrorsGet ==
  (/\ ev.kind \in CallKinds
   /\ ev.op = "setTargetTemperature"
   /\ dzk_opmode \in DeviceOperationModes
   /\ dzkob_defined(ev.a)) =>
    /\ ev.kind = "call"
    /\ Started.req.kind = "write"
    /\ Started.req.id = getTargetTemperature_bac_ob(dzk_opmode, lastDemand[ev.a])

\* every number a present value or an uninitialised dzk_opmode can be
AnyOperationMode == -1 .. 5

\* C9: to_hap_target_heatcool_state yields OFF, HEAT, COOL or AUTO for every
\* input; the shared mode survives to_hap then from_hap when it is AUTO, COOL
\* or HEAT, and comes back as COOL when it is DRY.
C9_TargetModeRoundTrip ==
  /\ \A m \in AnyOperationMode \cup {dzk_opmode, devOpmode} :
       to_hap_target_heatcool_state(m) \in
         {TargetHeatingCoolingState_OFF, TargetHeatingCoolingState_HEAT,
          TargetHeatingCoolingState_COOL, TargetHeatingCoolingState_AUTO}
  /\ \A m \in {dzk_opmode, devOpmode} :
       /\ m \in {DzkOperationMode_AUTO, DzkOperationMode_COOL, DzkOperationMode_HEAT} =>
            from_hap_target_heatcool_state(to_hap_target_heatcool_state(m)) = m
       /\ m = DzkOperationMode_DRY =>
            from_hap_target_heatcool_state(to_hap_target_heatcool_state(m)) =
              DzkOperationMode_COOL

\* a refresh has read DRY from the device and cached it as COOL
C9_Witness ==
  /\ ev.kind = "resolved"
  /\ ev.op = "getTargetHeatingCoolingState"
  /\ dzk_opmode = DzkOperationMode_DRY
  /\ internalStates[ev.a].targetHeatingCoolingState = TargetHeatingCoolingState_COOL

\* C10: a target-mode set issues a write of the converted mode to
\* dzk-operation-mode, tagged unsigned integer, and assigns neither
\* dzk_opmode nor the cached target state in that step; dzk_opmode becomes
\* the written mode in the step in which the write resolves; when the write
\* rejects, dzk_opmode and the cached target state keep their values.
C10_ModeAssignedAfterWrite ==
  [][LET isSet == ev'.op = "setTargetHeatingCoolingState"
     IN  /\ (ev'.kind \in CallKinds /\ isSet) =>
              /\ ev'.kind = "call"
              /\ tasks'[Len(tasks')].req.kind = "write"
              /\ tasks'[Len(tasks')].req.id = "dzk-operation-mode"
              /\ tasks'[Len(tasks')].req.type = << BACNET_APPLICATION_TAG_UNSIGNED_INT >>
              /\ tasks'[Len(tasks')].req.value =
                   << from_hap_target_heatcool_state(ev'.v[1]) >>
              /\ dzk_opmode' = dzk_opmode
              /\ internalStates' = internalStates
         /\ (ev'.kind = "resolved" /\ isSet) => dzk_opmode' = ev'.v[1]
         /\ (ev'.kind = "rejected" /\ isSet) =>
              /\ dzk_opmode' = dzk_opmode
              /\ internalStates' = internalStates
    ]_vars

\* the device took the write, the response was lost: the caches kept the old mode
C10_Witness ==
  /\ ev.kind = "rejected"
  /\ ev.op = "setTargetHeatingCoolingState"
  /\ dzk_opmode \in DeviceOperationModes
  /\ dzk_opmode # devOpmode

\* zone 1's target-mode set, the only handler call so far, has resolved with mode m
SetThroughZone1Done(m) ==
  /\ ev.kind = "resolved"
  /\ ev.op = "setTargetHeatingCoolingState"
  /\ zno(ev.a) = 1
  /\ ev.v = << m >>
  /\ calls = 1

\* the refresh of a getTargetHeatingCoolingState on zone 2, the only handler
\* call besides one earlier call, has resolved
GetThroughZone2Done ==
  /\ ev.kind = "resolved"
  /\ ev.op = "getTargetHeatingCoolingState"
  /\ zno(ev.a) = 2
  /\ calls = 2

\* C11: two zones on one platform. Once a target-mode set through zone 1 has
\* resolved with mode m, a getTargetHeatingCoolingState invoked on zone 2
\* afterwards (and before any other call) resolves with m, leaves m in the
\* shared mode and its conversion in zone 2's cache, and no request of zone 2
\* is a write.
C11_SharedModeAcrossZones ==
  \A m \in DeviceOperationModes :
    [](SetThroughZone1Done(m) =>
         [](GetThroughZone2Done =>
              /\ ev.v = << m >>
              /\ dzk_opmode = m
              /\ internalStates[ev.a].targetHeatingCoolingState =
                   to_hap_target_heatcool_state(m)
              /\ \A i \in DOMAIN tasks :
                   zno(tasks[i].a) = 2 => tasks[i].req.kind = "read"))

\* zone 2 has observed HEAT, which the device did not have at start-up and
\* which zone 2 never wrote
C11_Witness ==
  /\ Len(config_zones) = 2
  /\ GetThroughZone2Done
  /\ ev.v = << DzkOperationMode_HEAT >>
  /\ dzk_opmode = DzkOperationMode_HEAT
  /\ internalStates[2].targetHeatingCoolingState = TargetHeatingCoolingState_HEAT
  /\ internalStates[1].targetHeatingCoolingState = TargetHeatingCoolingState_HEAT

(* ------------------------------------------- the present-value methods *)
\* A client of the controller calls getGlobalPv, setGlobalPv, getZonePv or
\* setZonePv directly, with any identifier of the directory.
PvMethods == { "getGlobalPv", "setGlobalPv", "getZonePv", "setZonePv" }

PvIds == DOMAIN dzk_objects["global"] \cup DOMAIN dzk_objects["zone1"]

PvValues == { DzkOperationMode_HEAT }

PvStart(a, method, id, val) ==
  CASE method = "getGlobalPv" -> getGlobalPv(id)
    [] method = "setGlobalPv" -> setGlobalPv(id, << val >>)
    [] method = "getZonePv" -> getZonePv(a, id)
    [] method = "setZonePv" -> setZonePv(a, id, << val >>)

\* the call up to the promise it returns, or the TypeError it throws
PvCall(a, method, id, val) ==
  LET start == PvStart(a, method, id, val)
  IN  /\ Running
      /\ calls < MaxCalls
      /\ calls' = calls + 1
      /\ tasks' = IF start.throw THEN tasks
                  ELSE Append(tasks, NewTask(a, method, method, << val >>,
                                             start.req, NoCallback))
      /\ ev' = Event(IF start.throw THEN "threw" ELSE "call", a, method, << id >>, << >>)
      /\ UNCHANGED << accessories, registered, config_zones, built, ipAddress, dzk_opmode, internalStates,
                      lastDemand, devOpmode >>

\* the promise of a present-value call settles; a write of the operation
\* mode that succeeded has changed the device
PvSettle(i, ok) ==
  LET t == tasks[i]
  IN  /\ Running
      /\ t.op \in PvMethods
      /\ tasks' = Remove(tasks, i)
      /\ devOpmode' = IF ok /\ t.req.kind = "write" /\ t.req.id = "dzk-operation-mode"
                        THEN t.req.value[1] ELSE devOpmode
      /\ ev' = Event(IF ok THEN "resolved" ELSE "rejected", t.a, t.op, << >>, << >>)
      /\ UNCHANGED << accessories, registered, config_zones, built, ipAddress, dzk_opmode, internalStates,
                      lastDemand, calls >>

NextPv ==
  \/ Construct
  \/ \E a \in Accessories : \E method \in PvMethods : \E id \in PvIds :
       \E val \in PvValues : PvCall(a, method, id, val)
  \/ \E i \in DOMAIN tasks : PvSettle(i, TRUE)
  \/ \E i \in DOMAIN tasks : PvSettle(i, FALSE)
  \/ \E i \in DOMAIN tasks : tasks[i].op = "constructor" /\ DeviceAnswer(i)
  \/ \E i \in DOMAIN tasks : \E v \in Responses(tasks[i]) :
       tasks[i].op = "constructor" /\ TransportResolve(i, v)
  \/ \E i \in DOMAIN tasks : tasks[i].op = "constructor" /\ TransportReject(i)

SpecPv == Init /\ [][NextPv]_vars

(* ------------------------------------------------ restored accessories *)
\* zone lists a configuration can hold, one of them naming a zone twice
ConfigDiscoverLists == { << 1 >>, << 1, 2 >>, << 1, 1 >> }

\* the zones the host may hold a cached accessory for
RestorableZones == { 1, 2 }

\* Before didFinishLaunching the host hands a cached accessory to
\* configureAccessory, which pushes it to platform.accessories.
configureAccessory(zone) ==
  /\ built = 0
  /\ uuid(zone) \notin accessories
  /\ accessories' = accessories \cup { uuid(zone) }
  /\ ev' = Event("restore", 0, "configureAccessory", << >>, << >>)
  /\ UNCHANGED << registered, config_zones, built, ipAddress, dzk_opmode,
                  internalStates, lastDemand, tasks, calls, devOpmode >>

InitDiscover ==
  /\ config_zones \in ConfigDiscoverLists
  /\ built = 0
  /\ ipAddress = ""
  /\ dzk_opmode = -1
  /\ internalStates = << >>
  /\ lastDemand = << >>
  /\ tasks = << >>
  /\ ev = Event("init", 0, "", << >>, << >>)
  /\ calls = 0
  /\ devOpmode \in DeviceOperationModes
  /\ accessories = {}
  /\ registered = << >>

NextDiscover ==
  \/ \E zone \in RestorableZones : configureAccessory(zone)
  \/ Construct
  \/ \E i \in DOMAIN tasks : tasks[i].op = "constructor" /\ DeviceAnswer(i)
  \/ \E i \in DOMAIN tasks : \E v \in Responses(tasks[i]) :
       tasks[i].op = "constructor" /\ TransportResolve(i, v)
  \/ \E i \in DOMAIN tasks : tasks[i].op = "constructor" /\ TransportReject(i)

SpecDiscover == InitDiscover /\ [][NextDiscover]_vars

(* ------------------------------------------------------- further claims *)
\* the eager reads of the global mode that constructors have issued and that
\* are still pending
EagerReads == { i \in DOMAIN tasks : tasks[i].op = "constructor" }

\* C12 (as claimed): whenever a zone has just been constructed, exactly one
\* eager read of the global mode has been issued (none has completed yet,
\* because the construction loop runs to its end first).
C12_OneEagerRead ==
  ev.kind = "construct" => Cardinality(EagerReads) = 1

\* C13 (as claimed): a failure of the eager read of the global mode is
\* handled by a catch block of the subsystem and never left unhandled.
C13_EagerFailureCaught ==
  (ev.op = "constructor" /\ ev.kind \in {"rejected", "unhandled"}) =>
    ev.kind = "rejected"

\* C14 (as claimed): every constructed controller is for a zone in 1..6.
C14_OutOfRangeZoneFails ==
  \A a \in Accessories : zno(a) \in 1 .. 6

\* C16: the first construction assigns the configured address to the empty
\* shared address, and no step changes a non-empty shared address.
C16_AddressSetOnce ==
  [][/\ (built = 0 /\ built' = 1) => (ipAddress = "" /\ ipAddress' = ConfigIpAddress)
     /\ ipAddress # "" => ipAddress' = ipAddress
    ]_vars

\* the second zone was constructed and the address is the one the first set
C16_Witness ==
  /\ ev.kind = "construct"
  /\ built = 2
  /\ ipAddress = ConfigIpAddress
  /\ \A i \in DOMAIN tasks : tasks[i].req.addr = ConfigIpAddress

\* the directory marks an entry read-only ("R", also written " R")
ReadOnly(rw) == rw \in { "R", " R" }

\* the directory a present-value method of accessory a looks its identifier up in
PvScope(a, method) ==
  IF method \in { "getGlobalPv", "setGlobalPv" } THEN "global" ELSE ZoneScope(zno(a))

\* C15 (as claimed): a setGlobalPv or setZonePv on an entry the directory
\* marks read-only throws and issues no write.
C15_ReadOnlyWriteDenied ==
  (/\ ev.kind \in { "call", "threw" }
   /\ ev.op \in { "setGlobalPv", "setZonePv" }
   /\ PvScope(ev.a, ev.op) \in DOMAIN dzk_objects
   /\ ev.v[1] \in DOMAIN dzk_objects[PvScope(ev.a, ev.op)]
   /\ ReadOnly(dzk_objects[PvScope(ev.a, ev.op)][ev.v[1]].rw)) =>
    /\ ev.kind = "threw"
    /\ \A i \in DOMAIN tasks : tasks[i].req.kind = "write" => ~ReadOnly(
         dzk_objects[tasks[i].req.scope][tasks[i].req.id].rw)

\* the handlers whose values are temperatures
TemperatureGets ==
  { "getCurrentTemperature", "getTargetTemperature",
    "getHeatingThresholdTemperature", "getCoolingThresholdTemperature" }

TemperatureSets ==
  { "setTargetTemperature", "setHeatingThresholdTemperature",
    "setCoolingThresholdTemperature" }

\* C17 (as claimed): whatever unit the device is configured with, a
\* temperature read from the device is cached converted from Fahrenheit to
\* Celsius when that unit is Fahrenheit and unchanged when it is Celsius, and
\* a temperature written is converted to Fahrenheit when that unit is
\* Fahrenheit and unchanged when it is Celsius.
C17_ConversionByDeviceUnits ==
  \A deviceUnits \in ConfigDeviceUnits :
    /\ (ev.kind = "resolved" /\ ev.op \in TemperatureGets) =>
         internalStates[ev.a][Field(ev.op)] =
           IF deviceUnits = FAHRENHEIT THEN f2c(ev.v[1]) ELSE ev.v[1]
    /\ (ev.kind = "call" /\ ev.op \in TemperatureSets) =>
         Started.req.value[1] =
           IF deviceUnits = FAHRENHEIT THEN c2f(ev.v[1]) ELSE ev.v[1]

\* zone 1's getCurrentHeatingCoolingState, the only handler call so far, has
\* completed on heating-demand 15 and cooling-demand 0
HeatDemandObserved ==
  /\ ev.kind = "resolved"
  /\ ev.op = "getCurrentHeatingCoolingState"
  /\ zno(ev.a) = 1
  /\ ev.v = << 15, 0 >>
  /\ calls = 1

\* C18: when zone 1's getCurrentHeatingCoolingState has completed on demands
\* (15, 0), the state is HEAT and lastDemand is positive; a getTargetTemperature
\* that follows it with the shared mode AUTO issues a read of zone 1's
\* heat-set-point, its request stays that read, and when it resolves the
\* cached target temperature is the Celsius conversion of the value read.
C18_HeatDemandThenTargetTemperature ==
  [](HeatDemandObserved =>
       /\ internalStates[ev.a].currentHeatingCoolingState = CurrentHeatingCoolingState_HEAT
       /\ lastDemand[ev.a] > 0
       /\ []((calls = 2 /\ devOpmode = DzkOperationMode_AUTO) =>
               /\ (/\ ev.kind \in CallKinds
                   /\ ev.op = "getTargetTemperature"
                   /\ dzk_opmode = DzkOperationMode_AUTO) =>
                    /\ ev.kind = "call"
                    /\ Started.req.kind = "read"
                    /\ Started.req.scope = "zone1"
                    /\ Started.req.id = "heat-set-point"
               /\ \A i \in DOMAIN tasks :
                    tasks[i].op = "getTargetTemperature" =>
                      tasks[i].req.id = "heat-set-point"
               /\ (ev.kind = "resolved" /\ ev.op = "getTargetTemperature") =>
                    internalStates[ev.a].targetTemperature = f2c(ev.v[1])))

\* the scenario has run to its end: HEAT, positive lastDemand, and the heat
\* set point of 77 F cached as 25 C
C18_Witness ==
  /\ ev.kind = "resolved"
  /\ ev.op = "getTargetTemperature"
  /\ zno(ev.a) = 1
  /\ calls = 2
  /\ dzk_opmode = DzkOperationMode_AUTO
  /\ lastDemand[ev.a] = 15
  /\ internalStates[ev.a].currentHeatingCoolingState = CurrentHeatingCoolingState_HEAT
  /\ internalStates[ev.a].targetTemperature = 250

\* C19: a step for one zone (a handler call, a completed refresh, a failure)
\* leaves the cached values and the lastDemand of every other zone as they are.
C19_ZoneCachesIndependent ==
  [][\A b \in DOMAIN internalStates :
       b # ev'.a => /\ internalStates'[b] = internalStates[b]
                    /\ lastDemand'[b] = lastDemand[b]
    ]_vars

\* a failure on zone 2 after zone 1 refreshed: zone 1 keeps what it cached
C19_Witness ==
  /\ Len(config_zones) = 2
  /\ ev.kind = "rejected"
  /\ ev.a = 2
  /\ internalStates[1] # internalStates_default
  /\ internalStates[2] = internalStates_default

\* C20: no step of getCurrentHeatingCoolingState (its call, its second read,
\* its completion, its failure) changes the shared mode.
C20_CurrentStateKeepsMode ==
  [][ev'.op = "getCurrentHeatingCoolingState" => dzk_opmode' = dzk_opmode]_vars

\* it completed on heating demand while the shared mode was COOL
C20_Witness ==
  /\ ev.kind = "resolved"
  /\ ev.op = "getCurrentHeatingCoolingState"
  /\ ev.v[1] > 0
  /\ dzk_opmode = DzkOperationMode_COOL

\* C21: a completed fan-state refresh has cached INACTIVE when the global fan
\* object read 0 and BLOWING_AIR when it read anything else, and no accessory
\* ever caches IDLE.
C21_FanStateMapping ==
  /\ (ev.kind = "resolved" /\ ev.op = "getCurrentFanState") =>
       internalStates[ev.a].currentFanState =
         IF ev.v[1] = 0 THEN CurrentFanState_INACTIVE ELSE CurrentFanState_BLOWING_AIR
  /\ \A a \in Accessories : internalStates[a].currentFanState # CurrentFanState_IDLE

\* a running fan was read and cached as BLOWING_AIR
C21_Witness ==
  /\ ev.kind = "resolved"
  /\ ev.op = "getCurrentFanState"
  /\ ev.v[1] # 0
  /\ internalStates[ev.a].currentFanState = CurrentFanState_BLOWING_AIR

DisplayUnitHandlers == { "getTemperatureDisplayUnits", "setTemperatureDisplayUnits" }

\* C22: a display-unit get or set returns at once and issues no request; the
\* get hands out the stored unit and changes nothing, the set stores the given
\* unit and changes nothing else (no other cached value, lastDemand, shared
\* mode or address); and a temperature refresh caches the same conversion
\* whichever display unit is stored.
C22_DisplayUnitsLocal ==
  [][/\ ev'.op \in DisplayUnitHandlers =>
          /\ ev'.kind = "returned"
          /\ tasks' = tasks
          /\ << dzk_opmode', lastDemand', ipAddress', devOpmode' >> =
               << dzk_opmode, lastDemand, ipAddress, devOpmode >>
          /\ internalStates' =
               IF ev'.op = "setTemperatureDisplayUnits"
                 THEN [internalStates EXCEPT ![ev'.a].temperatureDisplayUnits = ev'.v[1]]
                 ELSE internalStates
          /\ ev'.op = "getTemperatureDisplayUnits" =>
               ev'.callbacks[1].val = << internalStates[ev'.a].temperatureDisplayUnits >>
     /\ (ev'.kind = "resolved" /\ ev'.op \in TemperatureGets) =>
          internalStates'[ev'.a][Field(ev'.op)] = f2c(ev'.v[1])
    ]_vars

\* the unit was set to Celsius and a temperature refreshed after it is
\* cached with the same conversion
C22_Witness ==
  /\ ev.kind = "resolved"
  /\ ev.op = "getCurrentTemperature"
  /\ internalStates[ev.a].temperatureDisplayUnits = CELSIUS
  /\ internalStates[ev.a].currentTemperature = f2c(ev.v[1])

\* C23 (as claimed): no UUID is handed to registerPlatformAccessories twice,
\* and none that a restored cached accessory already has.
C23_RegisteredOncePerUuid ==
  /\ \A i, j \in DOMAIN registered : registered[i] = registered[j] => i = j
  /\ \A i \in DOMAIN registered : registered[i] \notin accessories

\* C24 (as claimed): a lastDemand that is not zero does not become zero.
C24_LastDemandStaysKnown ==
  [][\A a \in DOMAIN lastDemand : lastDemand[a] # 0 => lastDemand'[a] # 0]_vars

\* the steps in which a read of the global mode completes
ModeReads == { "constructor", "getTargetHeatingCoolingState" }

\* C25: whenever a read of the global mode completes, whether it was
\* dispatched before or after the reads and writes that completed before it,
\* the shared mode is the value it carries, and for a handler's refresh the
\* cached target state is that value's conversion: the last completion wins.
C25_LastCompletionWins ==
  (ev.kind = "resolved" /\ ev.op \in ModeReads) =>
    /\ dzk_opmode = ev.v[1]
    /\ ev.op = "getTargetHeatingCoolingState" =>
         internalStates[ev.a].targetHeatingCoolingState =
           to_hap_target_heatcool_state(ev.v[1])

\* the constructor's read, dispatched first, sampled DRY and completed last:
\* the device is in HEAT, the accessory cached HEAT from a later response,
\* nothing is pending, and the shared mode is DRY again
C25_Witness ==
  /\ ev.kind = "resolved"
  /\ ev.op = "constructor"
  /\ tasks = << >>
  /\ devOpmode = DzkOperationMode_HEAT
  /\ internalStates[ev.a].targetHeatingCoolingState = TargetHeatingCoolingState_HEAT
  /\ dzk_opmode = DzkOperationMode_DRY

\* a getTargetHeatingCoolingState was invoked as the k-th handler call while
\* nothing else was pending
QuietModeRefresh(k) ==
  /\ ev.kind = "call"
  /\ ev.op = "getTargetHeatingCoolingState"
  /\ Len(tasks) = 1
  /\ calls = k

\* C26: a getTargetHeatingCoolingState refresh dispatched when every earlier
\* request had completed, and resolving before any further handler call,
\* leaves the device's mode in the shared mode and its conversion in the cache.
C26_QuietRefreshConverges ==
  \A k \in 1 .. MaxCalls :
    [](QuietModeRefresh(k) =>
         []((/\ ev.kind = "resolved"
             /\ ev.op = "getTargetHeatingCoolingState"
             /\ calls = k) =>
              /\ dzk_opmode = devOpmode
              /\ internalStates[ev.a].targetHeatingCoolingState =
                   to_hap_target_heatcool_state(devOpmode)))

\* after a set to HEAT and whatever raced with it, a refresh has brought the
\* shared mode and the cache to the device's mode
C26_Witness ==
  /\ ev.kind = "resolved"
  /\ ev.op = "getTargetHeatingCoolingState"
  /\ tasks = << >>
  /\ calls = 2
  /\ devOpmode = DzkOperationMode_HEAT
  /\ dzk_opmode = DzkOperationMode_HEAT
  /\ internalStates[ev.a].targetHeatingCoolingState = TargetHeatingCoolingState_HEAT

WritableModes == { DzkOperationMode_AUTO, DzkOperationMode_COOL, DzkOperationMode_HEAT }

\* C27: every write a target-mode set has issued carries AUTO, COOL or HEAT;
\* the set handler writes HEAT for HEAT, COOL for COOL and AUTO for anything
\* else, and the conversion yields no other mode for any number.
C27_WrittenModes ==
  /\ \A i \in DOMAIN tasks :
       tasks[i].op = "setTargetHeatingCoolingState" =>
         tasks[i].req.value[1] \in WritableModes
  /\ (ev.kind = "call" /\ ev.op = "setTargetHeatingCoolingState") =>
       Started.req.value[1] =
         (CASE ev.v[1] = TargetHeatingCoolingState_HEAT -> DzkOperationMode_HEAT
            [] ev.v[1] = TargetHeatingCoolingState_COOL -> DzkOperationMode_COOL
            [] OTHER -> DzkOperationMode_AUTO)
  /\ \A hap \in AnyOperationMode :
       /\ from_hap_target_heatcool_state(hap) \in WritableModes
       /\ hap \notin { TargetHeatingCoolingState_HEAT, TargetHeatingCoolingState_COOL } =>
            from_hap_target_heatcool_state(hap) = DzkOperationMode_AUTO

\* the host set OFF and AUTO is on its way to the device
C27_Witness ==
  /\ ev.kind = "call"
  /\ ev.op = "setTargetHeatingCoolingState"
  /\ ev.v = << TargetHeatingCoolingState_OFF >>
  /\ Started.req.value = << DzkOperationMode_AUTO >>

\* C28: a getTargetTemperature invoked while the shared mode is -1 answers
\* the host once with the cached value, throws before any request is issued,
\* and leaves every cached value as it was.
C28_UnknownModeNoRead ==
  [][(/\ ev'.kind \in CallKinds
      /\ ev'.op = "getTargetTemperature"
      /\ dzk_opmode = -1) =>
       /\ ev'.kind = "threw"
       /\ tasks' = tasks
       /\ internalStates' = internalStates
       /\ Len(ev'.callbacks) = 1
       /\ ev'.callbacks[1].err = "null"
       /\ ev'.callbacks[1].val = << internalStates[ev'.a].targetTemperature >>
    ]_vars

\* on zone 1, whose directory has both set points, with the mode unknown
C28_Witness ==
  /\ ev.kind = "threw"
  /\ ev.op = "getTargetTemperature"
  /\ zno(ev.a) = 1
  /\ dzk_opmode = -1
  /\ internalStates[ev.a].targetTemperature = internalStates_default.targetTemperature

\* demand readings, among them none, both and a negative one
AnyDemand == -1 .. 2

\* C29: every accessory's cached current state is OFF, HEAT or COOL and its
\* cached target state is OFF, HEAT, COOL or AUTO; the controller yields no
\* other current state for any pair of demands and the conversion no other
\* target state for any mode number.
C29_CachedStatesInRange ==
  /\ \A a \in Accessories :
       /\ internalStates[a].currentHeatingCoolingState \in
            { CurrentHeatingCoolingState_OFF, CurrentHeatingCoolingState_HEAT,
              CurrentHeatingCoolingState_COOL }
       /\ internalStates[a].targetHeatingCoolingState \in
            { TargetHeatingCoolingState_OFF, TargetHeatingCoolingState_HEAT,
              TargetHeatingCoolingState_COOL, TargetHeatingCoolingState_AUTO }
  /\ \A hd, cd \in AnyDemand :
       getCurrentHeatingCoolingState_rv(hd, cd) \in
         { CurrentHeatingCoolingState_OFF, CurrentHeatingCoolingState_HEAT,
           CurrentHeatingCoolingState_COOL }
  /\ \A m \in AnyOperationMode :
       to_hap_target_heatcool_state(m) \in 0 .. 3

\* both refreshes have run: HEAT is cached as current and AUTO as target state
C29_Witness ==
  /\ ev.kind = "resolved"
  /\ internalStates[ev.a].currentHeatingCoolingState = CurrentHeatingCoolingState_HEAT
  /\ internalStates[ev.a].targetHeatingCoolingState = TargetHeatingCoolingState_AUTO

\* the pending invocations of getCurrentHeatingCoolingState whose request reads id
DemandReads(ts, id) ==
  { i \in DOMAIN ts : ts[i].op = "getCurrentHeatingCoolingState" /\ ts[i].req.id = id }

\* C30: getCurrentHeatingCoolingState first issues a read of heating-demand;
\* when that resolves it issues the read of cooling-demand and assigns
\* nothing; when either read rejects, lastDemand and the cached values keep
\* their values and no read of cooling-demand is issued.
C30_DemandReadsInSequence ==
  [][ev'.op = "getCurrentHeatingCoolingState" =>
       /\ ev'.kind = "call" =>
            /\ tasks'[Len(tasks')].req.kind = "read"
            /\ tasks'[Len(tasks')].req.id = "heating-demand"
            /\ DemandReads(tasks', "cooling-demand") = DemandReads(tasks, "cooling-demand")
       /\ ev'.kind = "next" =>
            /\ Cardinality(DemandReads(tasks', "cooling-demand")) =
                 Cardinality(DemandReads(tasks, "cooling-demand")) + 1
            /\ Cardinality(DemandReads(tasks', "heating-demand")) =
                 Cardinality(DemandReads(tasks, "heating-demand")) - 1
            /\ lastDemand' = lastDemand
            /\ internalStates' = internalStates
       /\ ev'.kind = "rejected" =>
            /\ lastDemand' = lastDemand
            /\ internalStates' = internalStates
            /\ Len(tasks') = Len(tasks) - 1
            /\ Cardinality(DemandReads(tasks', "cooling-demand")) <=
                 Cardinality(DemandReads(tasks, "cooling-demand"))
    ]_vars

\* a refresh failed after an earlier one had observed heating demand: the
\* zone still has HEAT and its lastDemand
C30_Witness ==
  /\ ev.kind = "rejected"
  /\ ev.op = "getCurrentHeatingCoolingState"
  /\ lastDemand[ev.a] = 15
  /\ internalStates[ev.a].currentHeatingCoolingState = CurrentHeatingCoolingState_HEAT

====
